---- MODULE Spec2Model ----
(***************************************************************************)
(* A model of the ADXL345 accelerometer driver (adxl345.c / adxl345.h).    *)
(*                                                                         *)
(* The driver is single threaded and blocking: every driver function is    *)
(* one atomic action.  The I2C bus is the environment: every bus           *)
(* transaction of a call either succeeds or fails, chosen                  *)
(* nondeterministically.  The caller is modelled by `pc`: it is "idle",    *)
(* calls one driver function (the action of that function), is "returned"  *)
(* with the record of the call (`call`, `log`, `printed`, `ret`) and then  *)
(* goes back to "idle" (Return), which forgets that record.                *)
(***************************************************************************)
EXTENDS Integers, Sequences, FiniteSets, TLC

(***************************************************************************)
(* Register addresses (adxl345.h, section 2).                              *)
(***************************************************************************)
DEVID == 0
THRESH_TAP == 29
DUR == 33
LATENT == 34
WINDOW == 35
THRESH_ACT == 36
THRESH_INACT == 37
TIME_INACT == 38
ACT_INACT_CTL == 39
THRESH_FF == 40
TIME_FF == 41
TAP_AXES == 42
ACT_TAP_STATUS == 43
BW_RATE == 44
POWER_CTL == 45
INT_ENABLE == 46
INT_MAP == 47
INT_SOURCE == 48
DATA_FORMAT == 49
DATAX0 == 50
FIFO_CTL == 56

(***************************************************************************)
(* Register setting values (adxl345.h, section 3).                         *)
(***************************************************************************)
LP_NORMAL == 0
LP_LOWPOWER == 16
BWRATE_100 == 11
LINKMODE_ON == 32
LINKMODE_OFF == 0
AUTOSLEEPMODE_ON == 16
AUTOSLEEPMODE_OFF == 0
MEASURE_ON == 8
MEASURE_OFF == 0
WAKEUP_4Hz == 1
DATA_READY_ON == 128
SINGLE_TAP_ON == 64
SINGLE_TAP_OFF == 0
DOUBLE_TAP_ON == 32
DOUBLE_TAP_OFF == 0
ACTIVITY_ON == 16
INACTIVITY_ON == 8
FREE_FALL_ON == 4
FREE_FALL_OFF == 0
WATERMARK_ON == 2
OVERRUN_ON == 1
DATA_READY_INT == 128
SINGLE_TAP_INT == 64
DOUBLE_TAP_INT == 32
ACTIVITY_INT == 16
INACTIVITY_INT == 8
FREE_FALL_INT == 4
WATERMARK_INT == 2
OVERRUN_INT == 1
SELF_TEST_ON == 128
INT_ACTIVELOW == 32
FULL_RESOLUTION == 8
MODE_10BIT == 0
JUSTIFY_MSB == 4
RANGE_4G == 1
FIFO_BYPASS == 0
FIFO_FIFO == 64
FIFO_STREAM == 128
FIFO_TRIGGER == 192
FIFO_TRIGGER_INT2 == 32
FIFO_SAMPLES_16 == 15

(***************************************************************************)
(* uint8_t / int16_t arithmetic of the C code.                             *)
(***************************************************************************)
\* number of values of a uint8_t
Byte8 == 256
\* number of values of an int16_t
Word16 == 65536

Bytes == 0 .. (Byte8 - 1)

RECURSIVE BitOrN(_, _, _)
\* a | b on the low n bits of two non-negative integers
BitOrN(a, b, n) ==
    IF n = 0 THEN 0
    ELSE (IF (a % 2 = 1) \/ (b % 2 = 1) THEN 1 ELSE 0)
         + 2 * BitOrN(a \div 2, b \div 2, n - 1)

RECURSIVE BitAndN(_, _, _)
\* a & b on the low n bits of two non-negative integers
BitAndN(a, b, n) ==
    IF n = 0 THEN 0
    ELSE (IF (a % 2 = 1) /\ (b % 2 = 1) THEN 1 ELSE 0)
         + 2 * BitAndN(a \div 2, b \div 2, n - 1)

\* the two operators tabulated over all pairs of bytes
BitOrTable == [a \in Bytes |-> [b \in Bytes |-> BitOrN(a, b, 8)]]
BitAndTable == [a \in Bytes |-> [b \in Bytes |-> BitAndN(a, b, 8)]]
\* C's a | b on two uint8_t values
BitOr(a, b) == BitOrTable[a][b]
\* C's a & b on two uint8_t values
BitAnd(a, b) == BitAndTable[a][b]
\* C's a | b on two values that fit 16 bits
BitOr16(a, b) == BitOrN(a, b, 16)
\* the low byte of C's ~m (int promotion, then stored in a uint8_t)
Compl8(m) == (-1 - m) % Byte8
\* the conversion of an int to uint8_t
ToU8(x) == x % Byte8
\* the conversion of an int to int16_t (two's complement wrap)
ToInt16(x) ==
    IF x % Word16 >= Word16 \div 2 THEN (x % Word16) - Word16 ELSE x % Word16


(***************************************************************************)
(* Bounds of the model.                                                    *)
(***************************************************************************)
\* the largest number of bus transactions that fail during one driver call
MaxFail == 1

(***************************************************************************)
(* State.                                                                  *)
(***************************************************************************)
VARIABLES
    power_ctl,    \* static uint8_t power_ctl   (shadow of POWER_CTL)
    data_format,  \* static uint8_t data_format (shadow of DATA_FORMAT)
    fifo_ctl,     \* static uint8_t fifo_ctl    (shadow of FIFO_CTL)
    bw_rate,      \* static uint8_t bw_rate     (shadow of BW_RATE)
    int_enable,   \* static uint8_t int_enable  (shadow of INT_ENABLE)
    int_source,   \* static uint8_t int_source
    test,         \* static uint8_t test
    axis_data,    \* static uint8_t axis_data[6], indexed 0..5 as in C
    dev,          \* the register file of the device at the other end of the bus
    lastOk,       \* per control register: value of the last successful write, or NoWrite
    initConfig,   \* the caller's ADXL_InitType object, or NULL
    pc,           \* the caller: "idle" or "returned"
    call,         \* the driver call that returned: [op, a, b]
    pre,          \* the shadow bytes when that call was made
    log,          \* the bus transactions of that call, in order:
                  \* [kind, reg, val, ok]
    sample,       \* the acceleration <<x, y, z>> the device has measured
    printed,      \* what that call printed on the console, in order
    ret           \* what that call returned to the caller

shadows == <<power_ctl, data_format, fifo_ctl, bw_rate, int_enable>>
vars == <<power_ctl, data_format, fifo_ctl, bw_rate, int_enable, int_source,
          axis_data, dev, lastOk, initConfig, pc, call, pre, log, sample,
          printed, ret, test>>

\* the null pointer: a configuration object with no fields
NULL == << >>
\* p == NULL
IsNull(p) == DOMAIN p = {}
\* a void function returns nothing the caller could test
Void == "void"
\* lastOk of a register the driver has not yet written successfully
NoWrite == 0 - 1
\* the call record of a caller that is not in a call
NoCall == [op |-> "none", a |-> 0, b |-> 0]

\* the registers the driver keeps a shadow byte of
ShadowRegs == {BW_RATE, POWER_CTL, DATA_FORMAT, FIFO_CTL, INT_ENABLE}
\* the registers of the device the driver reads or writes
Regs == {DEVID, THRESH_TAP, DUR, LATENT, WINDOW, THRESH_ACT, THRESH_INACT,
         TIME_INACT, ACT_INACT_CTL, THRESH_FF, TIME_FF, TAP_AXES,
         ACT_TAP_STATUS, BW_RATE, POWER_CTL, INT_ENABLE, INT_MAP, INT_SOURCE,
         DATA_FORMAT, FIFO_CTL} \cup (DATAX0 .. (DATAX0 + 5))

\* the shadow bytes as a record, for the snapshot `pre`
Shadow(bw, pw, df, ff, ie) ==
    [bw_rate |-> bw, power_ctl |-> pw, data_format |-> df, fifo_ctl |-> ff,
     int_enable |-> ie]
CurShadow == Shadow(bw_rate, power_ctl, data_format, fifo_ctl, int_enable)
\* the shadow byte kept for register r
ShadowOf(r) ==
    CASE r = BW_RATE -> bw_rate
      [] r = POWER_CTL -> power_ctl
      [] r = DATA_FORMAT -> data_format
      [] r = FIFO_CTL -> fifo_ctl
      [] r = INT_ENABLE -> int_enable

(***************************************************************************)
(* The bus.  writeRegister(reg, value) is one HAL_I2C_Master_Transmit: on  *)
(* HAL_OK the device register takes the value, otherwise nothing changes   *)
(* on the device.  Either way the function only prints a line and returns  *)
(* void.  readRegister and readValue are one HAL_I2C_Mem_Read: on HAL_OK   *)
(* the buffer takes the register contents, otherwise it is left as it was. *)
(***************************************************************************)
\* the byte in *value after readRegister(reg, value, 1) with outcome ok
readRegister(d, reg, old, ok) == IF ok THEN d[reg] ELSE old

\* axis_data after readValue(reg) with outcome ok: six registers from reg on
readValue(d, reg, old, ok) ==
    IF ok THEN [i \in 0 .. 5 |-> d[reg + i]] ELSE old

\* the log entry of a read
ReadEntry(reg, v, ok) == [kind |-> "read", reg |-> reg, val |-> v, ok |-> ok]

\* what an uninitialised uint8_t local may hold: any byte; the model tries the
\* two extreme bit patterns
Indeterminate == {0, Byte8 - 1}

\* the device register file after writeRegister(reg, value) with outcome ok
writeRegister(d, reg, value, ok) ==
    IF ok THEN [d EXCEPT ![reg] = value] ELSE d

\* the last-successful-write record after writeRegister(reg, value)
NoteWrite(l, reg, value, ok) ==
    IF ok /\ reg \in DOMAIN l THEN [l EXCEPT ![reg] = value] ELSE l

\* the sets of positions, among n transactions, at which the bus fails
RECURSIVE FailSetsK(_, _)
FailSetsK(n, k) ==
    IF k = 0 THEN {{}}
    ELSE LET S == FailSetsK(n, k - 1)
         IN  S \cup {s \cup {i} : s \in S, i \in 1 .. n}
FailSets(n) == FailSetsK(n, MaxFail)

RECURSIVE DevAfter(_, _, _, _)
\* the device after the writes ws[i..], those at the positions in fails failing
DevAfter(d, ws, fails, i) ==
    IF i > Len(ws) THEN d
    ELSE DevAfter(writeRegister(d, ws[i][1], ws[i][2], i \notin fails),
                  ws, fails, i + 1)

RECURSIVE LastOkAfter(_, _, _, _)
LastOkAfter(l, ws, fails, i) ==
    IF i > Len(ws) THEN l
    ELSE LastOkAfter(NoteWrite(l, ws[i][1], ws[i][2], i \notin fails),
                     ws, fails, i + 1)

\* the record of the writes ws as issued on the bus
LogOf(ws, fails) ==
    [i \in 1 .. Len(ws) |->
        [kind |-> "write", reg |-> ws[i][1], val |-> ws[i][2],
         ok |-> i \notin fails]]

\* the effect on the bus side of a call that issues the writes ws
Issue(ws, fails) ==
    /\ dev' = DevAfter(dev, ws, fails, 1)
    /\ lastOk' = LastOkAfter(lastOk, ws, fails, 1)
    /\ log' = LogOf(ws, fails)

\* the caller enters a driver function and gets control back
Called(op, a, b) ==
    /\ pc = "idle"
    /\ pc' = "returned"
    /\ call' = [op |-> op, a |-> a, b |-> b]
    /\ pre' = CurShadow

(***************************************************************************)
(* adxlInit and its helpers.                                               *)
(***************************************************************************)
\* resetRegisters(): four writes of 0x00
resetRegistersWrites ==
    << <<BW_RATE, 0>>, <<POWER_CTL, 0>>, <<DATA_FORMAT, 0>>, <<FIFO_CTL, 0>> >>

\* configureAutosleep(): four writes
configureAutosleepWrites ==
    << <<THRESH_ACT, 16>>, <<THRESH_INACT, 4>>, <<TIME_INACT, 5>>,
       <<ACT_INACT_CTL, 255>> >>

\* the rate byte without the low-power flag
BwRateByte_NoLowPower(c) == ToU8(c.BWRATE)
\* bw_rate = initConfig->LP_MODE | initConfig->BWRATE
BwRateByte(c) == ToU8(BitOr(c.LP_MODE, c.BWRATE))
\* power_ctl = LINK_MODE | AUTOSLEEP_MODE | MEASURE_SET
PowerCtlByte(c) ==
    ToU8(BitOr(BitOr(c.LINK_MODE, c.AUTOSLEEP_MODE), c.MEASURE_SET))
\* data_format = FULL_RES | RANGE
DataFormatByte(c) == ToU8(BitOr(c.FULL_RES, c.RANGE))
\* fifo_ctl = FIFO_MODE
FifoCtlByte(c) == c.FIFO_MODE

\* adxlInit with configureAutosleep() called after the POWER_CTL write
adxlInitWrites_AutosleepLate(c) ==
    resetRegistersWrites
    \o << <<BW_RATE, BwRateByte(c)>> >>
    \o << <<POWER_CTL, PowerCtlByte(c)>> >>
    \o (IF c.AUTOSLEEP_MODE = AUTOSLEEPMODE_ON
        THEN configureAutosleepWrites ELSE << >>)
    \o << <<DATA_FORMAT, DataFormatByte(c)>> >>
    \o << <<FIFO_CTL, FifoCtlByte(c)>> >>

\* the bus writes of adxlInit(c), c not NULL, in program order
adxlInitWrites(c) ==
    resetRegistersWrites
    \o << <<BW_RATE, BwRateByte(c)>> >>
    \o (IF c.AUTOSLEEP_MODE = AUTOSLEEPMODE_ON
        THEN configureAutosleepWrites ELSE << >>)
    \o << <<POWER_CTL, PowerCtlByte(c)>> >>
    \o << <<DATA_FORMAT, DataFormatByte(c)>> >>
    \o << <<FIFO_CTL, FifoCtlByte(c)>> >>

\* void adxlInit(ADXL_InitType *initConfig)
adxlInit ==
    /\ Called("adxlInit", 0, 0)
    /\ IF IsNull(initConfig)
       THEN /\ log' = << >>
            /\ UNCHANGED <<shadows, dev, lastOk>>
       ELSE /\ LET ws == adxlInitWrites(initConfig)
               IN  \E fails \in FailSets(Len(ws)) : Issue(ws, fails)
            /\ bw_rate' = BwRateByte(initConfig)
            /\ power_ctl' = PowerCtlByte(initConfig)
            /\ data_format' = DataFormatByte(initConfig)
            /\ fifo_ctl' = FifoCtlByte(initConfig)
            /\ UNCHANGED int_enable
    /\ printed' = << >>
    /\ ret' = Void
    /\ UNCHANGED <<int_source, axis_data, initConfig, sample, test>>

\* void resetRegisters()
resetRegisters ==
    /\ Called("resetRegisters", 0, 0)
    /\ \E fails \in FailSets(Len(resetRegistersWrites)) :
           Issue(resetRegistersWrites, fails)
    /\ printed' = << >>
    /\ ret' = Void
    /\ UNCHANGED <<shadows, int_source, axis_data, initConfig, sample, test>>

\* the caller continues after a call; the record of the call is dropped
Return ==
    /\ pc = "returned"
    /\ pc' = "idle"
    /\ call' = NoCall
    /\ pre' = CurShadow
    /\ log' = << >>
    /\ printed' = << >>
    /\ ret' = Void
    /\ UNCHANGED <<shadows, int_source, axis_data, dev, lastOk, initConfig,
                   sample, test>>

(***************************************************************************)
(* The functions that only touch a shadow byte.                            *)
(***************************************************************************)
\* a call that issues no bus transaction and changes at most the shadows
ShadowOnly(op, a) ==
    /\ Called(op, a, 0)
    /\ log' = << >>
    /\ printed' = << >>
    /\ ret' = Void
    /\ UNCHANGED <<int_source, axis_data, dev, lastOk, initConfig, sample, test>>

\* void WakeUp(uint8_t wakeup): power_ctl |= wakeup
WakeUp(wakeup) ==
    /\ ShadowOnly("WakeUp", wakeup)
    /\ power_ctl' = ToU8(BitOr(power_ctl, wakeup))
    /\ UNCHANGED <<data_format, fifo_ctl, bw_rate, int_enable>>

\* void Self_Test(uint8_t self_test): data_format |= self_test
Self_Test(self_test) ==
    /\ ShadowOnly("Self_Test", self_test)
    /\ data_format' = ToU8(BitOr(data_format, self_test))
    /\ UNCHANGED <<power_ctl, fifo_ctl, bw_rate, int_enable>>

\* void Int_Invert(uint8_t int_invert): data_format |= int_invert
Int_Invert(int_invert) ==
    /\ ShadowOnly("Int_Invert", int_invert)
    /\ data_format' = ToU8(BitOr(data_format, int_invert))
    /\ UNCHANGED <<power_ctl, fifo_ctl, bw_rate, int_enable>>

\* void Justify(uint8_t justify): data_format |= justify
Justify(justify) ==
    /\ ShadowOnly("Justify", justify)
    /\ data_format' = ToU8(BitOr(data_format, justify))
    /\ UNCHANGED <<power_ctl, fifo_ctl, bw_rate, int_enable>>

\* void FIFO_Trigger_bit(uint8_t trigger_bit): fifo_ctl |= trigger_bit
FIFO_Trigger_bit(trigger_bit) ==
    /\ ShadowOnly("FIFO_Trigger_bit", trigger_bit)
    /\ fifo_ctl' = ToU8(BitOr(fifo_ctl, trigger_bit))
    /\ UNCHANGED <<power_ctl, data_format, bw_rate, int_enable>>

\* void FIFO_Samples(uint8_t samples): fifo_ctl |= samples
FIFO_Samples(samples) ==
    /\ ShadowOnly("FIFO_Samples", samples)
    /\ fifo_ctl' = ToU8(BitOr(fifo_ctl, samples))
    /\ UNCHANGED <<power_ctl, data_format, bw_rate, int_enable>>

(***************************************************************************)
(* Interrupt enable.                                                       *)
(***************************************************************************)
\* the OR of the eight fields of an ADXL_INTType
IntEnableByte(c) ==
    ToU8(BitOr(BitOr(BitOr(c.DATA_READY, c.SINGLE_TAP),
                     BitOr(c.DOUBLE_TAP, c.ACTIVITY)),
               BitOr(BitOr(c.INACTIVITY, c.FREE_FALL),
                     BitOr(c.WATERMARK, c.OVERRUN))))

\* void INT_Enable(ADXL_INTType *INTConfig)
INT_Enable(c) ==
    /\ Called("INT_Enable", IntEnableByte(c), 0)
    /\ int_enable' = IntEnableByte(c)
    /\ LET ws == << <<INT_ENABLE, IntEnableByte(c)>> >>
       IN  \E fails \in FailSets(Len(ws)) : Issue(ws, fails)
    /\ printed' = << >>
    /\ ret' = Void
    /\ UNCHANGED <<power_ctl, data_format, fifo_ctl, bw_rate, int_source,
                   axis_data, initConfig, sample, test>>

(***************************************************************************)
(* Interrupt mapping and interrupt source.                                 *)
(***************************************************************************)
\* INT_Map with the two branches exchanged: pin 1 sets, pin 2 clears
INT_MapValue_Swapped(int_map, interrupt_mask, pin) ==
    IF pin = 1
    THEN ToU8(BitOr(int_map, interrupt_mask))
    ELSE ToU8(BitAnd(int_map, Compl8(interrupt_mask)))

\* int_map &= ~interrupt_mask (pin == 1), int_map |= interrupt_mask (pin == 2)
INT_MapValue(int_map, interrupt_mask, pin) ==
    IF pin = 1
    THEN ToU8(BitAnd(int_map, Compl8(interrupt_mask)))
    ELSE ToU8(BitOr(int_map, interrupt_mask))

\* void INT_Map(uint8_t interrupt_mask, uint8_t pin)
INT_Map(interrupt_mask, pin) ==
    /\ Called("INT_Map", interrupt_mask, pin)
    /\ \E fails \in FailSets(IF pin \in {1, 2} THEN 2 ELSE 1),
          garbage \in Indeterminate :
          LET int_map == readRegister(dev, INT_MAP, garbage, 1 \notin fails)
              rd == ReadEntry(INT_MAP, int_map, 1 \notin fails)
              new == INT_MapValue(int_map, interrupt_mask, pin)
          IN  IF pin \in {1, 2}
              THEN /\ dev' = writeRegister(dev, INT_MAP, new, 2 \notin fails)
                   /\ log' = <<rd, [kind |-> "write", reg |-> INT_MAP,
                                    val |-> new, ok |-> 2 \notin fails]>>
                   /\ printed' = << >>
              ELSE /\ dev' = dev
                   /\ log' = <<rd>>
                   /\ printed' =
                          <<"Error: Invalid pin. Use Pin1 (1) or 2 Pin2 (2).">>
    /\ ret' = Void
    /\ UNCHANGED <<shadows, int_source, axis_data, lastOk, initConfig, sample, test>>

\* the tests of INT_Source in program order: mask and printed line
INT_SourceChecks ==
    << <<DATA_READY_INT, "Interrupt: Data Ready">>,
       <<SINGLE_TAP_INT, "Interrupt: Single Tap Detected">>,
       <<DOUBLE_TAP_INT, "Interrupt: Double Tap Detected">>,
       <<ACTIVITY_INT, "Interrupt: Activity Detected">>,
       <<INACTIVITY_INT, "Interrupt: Inactivity Detected">>,
       <<FREE_FALL_INT, "Interrupt: Free-Fall Detected">>,
       <<WATERMARK_INT, "Interrupt: FIFO Watermark Reached">>,
       <<OVERRUN_INT, "Interrupt: FIFO Overrun">> >>

\* INT_Source testing int_source == MASK instead of int_source & MASK
INT_SourcePrints_Equal(b) ==
    LET Hit(c) == b = c[1]
        hit == SelectSeq(INT_SourceChecks, Hit)
    IN  [i \in 1 .. Len(hit) |-> hit[i][2]]

\* the lines INT_Source prints for int_source = b
INT_SourcePrints(b) ==
    LET Hit(c) == BitAnd(b, c[1]) # 0
        hit == SelectSeq(INT_SourceChecks, Hit)
    IN  [i \in 1 .. Len(hit) |-> hit[i][2]]

\* void INT_Source(void)
INT_Source ==
    /\ Called("INT_Source", 0, 0)
    /\ \E fails \in FailSets(1) :
          LET v == readRegister(dev, INT_SOURCE, int_source, 1 \notin fails)
          IN  /\ int_source' = v
              /\ log' = <<ReadEntry(INT_SOURCE, v, 1 \notin fails)>>
              /\ printed' = INT_SourcePrints(v)
    /\ ret' = Void
    /\ UNCHANGED <<shadows, axis_data, dev, lastOk, initConfig, sample, test>>

(***************************************************************************)
(* Tap and free-fall configuration.                                        *)
(***************************************************************************)
\* configureTapAndFreefall writing LATENT and WINDOW for any tap
configureTapAndFreefallWrites_AnyTap(c) ==
    (IF c.SINGLE_TAP = SINGLE_TAP_ON \/ c.DOUBLE_TAP = DOUBLE_TAP_ON
     THEN << <<THRESH_TAP, 48>>, <<DUR, 32>>, <<TAP_AXES, 7>>,
             <<LATENT, 5>>, <<WINDOW, 80>> >>
     ELSE << >>)
    \o (IF c.FREE_FALL = FREE_FALL_ON
        THEN << <<THRESH_FF, 7>>, <<TIME_FF, 8>>, <<ACT_INACT_CTL, 119>> >>
        ELSE << >>)

\* the bus writes of configureTapAndFreefall(c) in program order
configureTapAndFreefallWrites(c) ==
    (IF c.SINGLE_TAP = SINGLE_TAP_ON \/ c.DOUBLE_TAP = DOUBLE_TAP_ON
     THEN << <<THRESH_TAP, 48>>, <<DUR, 32>>, <<TAP_AXES, 7>> >>
          \o (IF c.DOUBLE_TAP = DOUBLE_TAP_ON
              THEN << <<LATENT, 5>>, <<WINDOW, 80>> >>
              ELSE << >>)
     ELSE << >>)
    \o (IF c.FREE_FALL = FREE_FALL_ON
        THEN << <<THRESH_FF, 7>>, <<TIME_FF, 8>>, <<ACT_INACT_CTL, 119>> >>
        ELSE << >>)

\* void configureTapAndFreefall(ADXL_INTType *INTConfig); the call record
\* keeps the flags of *INTConfig as their OR
configureTapAndFreefall(c) ==
    /\ Called("configureTapAndFreefall", IntEnableByte(c), 0)
    /\ LET ws == configureTapAndFreefallWrites(c)
       IN  \E fails \in FailSets(Len(ws)) : Issue(ws, fails)
    /\ printed' = << >>
    /\ ret' = Void
    /\ UNCHANGED <<shadows, int_source, axis_data, initConfig, sample, test>>

(***************************************************************************)
(* Axis data.                                                              *)
(***************************************************************************)
\* the axis value without the conversion to int16_t
AxisValue_Unsigned(buf, hi, lo) == BitOr16(buf[hi] * Byte8, buf[lo])

\* (int16_t)((axis_data[hi] << 8) | axis_data[lo])
AxisValue(buf, hi, lo) == ToInt16(BitOr16(buf[hi] * Byte8, buf[lo]))

\* readValue(DATAX0); return (axis_data[hi] << 8) | axis_data[lo];
ReadAxis(op, hi, lo) ==
    /\ Called(op, 0, 0)
    /\ \E fails \in FailSets(1) :
          LET buf == readValue(dev, DATAX0, axis_data, 1 \notin fails)
          IN  /\ axis_data' = buf
              /\ log' = <<ReadEntry(DATAX0, buf[0], 1 \notin fails)>>
              /\ ret' = AxisValue(buf, hi, lo)
    /\ printed' = << >>
    /\ UNCHANGED <<shadows, int_source, dev, lastOk, initConfig, sample, test>>

\* int16_t read_X(void)
read_X == ReadAxis("read_X", 1, 0)
\* int16_t read_Y(void)
read_Y == ReadAxis("read_Y", 3, 2)
\* int16_t read_Z(void)
read_Z == ReadAxis("read_Z", 5, 4)

\* the device: the six data registers holding the measurement s, each axis a
\* 16-bit two's complement number, low byte in DATA?0, high byte in DATA?1
DataRegs(s) ==
    [r \in DATAX0 .. (DATAX0 + 5) |->
        LET w == s[((r - DATAX0) \div 2) + 1] % Word16
        IN  IF (r - DATAX0) % 2 = 0 THEN w % Byte8 ELSE w \div Byte8]

(***************************************************************************)
(* Device identity.                                                        *)
(***************************************************************************)
\* the device ID of an ADXL345, named in the comment of adxlTest
DEVID_ADXL345 == 229

\* void adxlTest(): readRegister(DEVID, &test, 1)
adxlTest ==
    /\ Called("adxlTest", 0, 0)
    /\ \E fails \in FailSets(1) :
          LET v == readRegister(dev, DEVID, test, 1 \notin fails)
          IN  /\ test' = v
              /\ log' = <<ReadEntry(DEVID, v, 1 \notin fails)>>
    /\ printed' = << >>
    /\ ret' = Void
    /\ UNCHANGED <<shadows, int_source, axis_data, dev, lastOk, initConfig,
                   sample>>

(***************************************************************************)
(* Configurations.                                                         *)
(***************************************************************************)
\* every valid ADXL_InitType: each field one of the values of its bit field
ValidConfigs ==
    [LP_MODE : {LP_NORMAL, LP_LOWPOWER},
     BWRATE : 0 .. 15,
     LINK_MODE : {LINKMODE_OFF, LINKMODE_ON},
     AUTOSLEEP_MODE : {AUTOSLEEPMODE_OFF, AUTOSLEEPMODE_ON},
     MEASURE_SET : {MEASURE_OFF, MEASURE_ON},
     FULL_RES : {MODE_10BIT, FULL_RESOLUTION},
     RANGE : 0 .. 3,
     FIFO_MODE : {FIFO_BYPASS, FIFO_FIFO, FIFO_STREAM, FIFO_TRIGGER}]

\* the state after the static initialisers, before any call
PowerOn ==
    /\ power_ctl = 0 /\ data_format = 0 /\ fifo_ctl = 0 /\ bw_rate = 0
    /\ int_enable = 0
    /\ int_source = 0
    /\ test = 0
    /\ axis_data = [i \in 0 .. 5 |-> 0]
    /\ lastOk = [r \in ShadowRegs |-> NoWrite]
    /\ pc = "idle"
    /\ call = NoCall
    /\ pre = Shadow(0, 0, 0, 0, 0)
    /\ log = << >>
    /\ printed = << >>
    /\ ret = Void

\* every valid ADXL_INTType: each flag off or its own bit
ValidIntConfigs ==
    [DATA_READY : {0, DATA_READY_ON},
     SINGLE_TAP : {SINGLE_TAP_OFF, SINGLE_TAP_ON},
     DOUBLE_TAP : {DOUBLE_TAP_OFF, DOUBLE_TAP_ON},
     ACTIVITY : {0, ACTIVITY_ON},
     INACTIVITY : {0, INACTIVITY_ON},
     FREE_FALL : {FREE_FALL_OFF, FREE_FALL_ON},
     WATERMARK : {0, WATERMARK_ON},
     OVERRUN : {0, OVERRUN_ON}]

\* the configuration of the usage example in the header comment of adxl345.c
UsageConfig ==
    [LP_MODE |-> LP_NORMAL, BWRATE |-> BWRATE_100, LINK_MODE |-> LINKMODE_OFF,
     AUTOSLEEP_MODE |-> AUTOSLEEPMODE_OFF, MEASURE_SET |-> MEASURE_ON,
     FULL_RES |-> FULL_RESOLUTION, RANGE |-> RANGE_4G,
     FIFO_MODE |-> FIFO_STREAM]
\* the interrupt configuration of the usage example: everything off
UsageIntConfig ==
    [DATA_READY |-> 0, SINGLE_TAP |-> SINGLE_TAP_OFF,
     DOUBLE_TAP |-> DOUBLE_TAP_OFF, ACTIVITY |-> 0, INACTIVITY |-> 0,
     FREE_FALL |-> FREE_FALL_OFF, WATERMARK |-> 0, OVERRUN |-> 0]

\* the configurations of the sessions of Spec
SessionConfigs ==
    {UsageConfig,
     [UsageConfig EXCEPT !.AUTOSLEEP_MODE = AUTOSLEEPMODE_ON,
                         !.LP_MODE = LP_LOWPOWER]}
SessionIntConfigs ==
    {UsageIntConfig, [UsageIntConfig EXCEPT !.DATA_READY = DATA_READY_ON]}

(***************************************************************************)
(* SpecInit: the first call of adxlInit after power-on, the configuration   *)
(* object any valid ADXL_InitType or NULL.                                 *)
(***************************************************************************)
InitInit ==
    /\ PowerOn
    /\ dev = [r \in Regs |-> 0]
    /\ initConfig \in ValidConfigs \cup {NULL}
    /\ sample = <<0, 0, 0>>

NextInit == adxlInit

SpecInit == InitInit /\ [][NextInit]_vars

(***************************************************************************)
(* Spec: a session of one firmware image with one configuration object:    *)
(* any sequence of calls of the functions that set up the control          *)
(* registers.                                                              *)
(***************************************************************************)
Init ==
    /\ PowerOn
    /\ dev = [r \in Regs |-> 0]
    /\ initConfig \in SessionConfigs
    /\ sample = <<0, 0, 0>>

Next ==
    \/ adxlInit
    \/ resetRegisters
    \/ pc = "idle" /\ \E c \in SessionIntConfigs : INT_Enable(c)
    \/ WakeUp(WAKEUP_4Hz)
    \/ Self_Test(SELF_TEST_ON)
    \/ Int_Invert(INT_ACTIVELOW)
    \/ Justify(JUSTIFY_MSB)
    \/ FIFO_Trigger_bit(FIFO_TRIGGER_INT2)
    \/ FIFO_Samples(FIFO_SAMPLES_16)
    \/ Return

Spec == Init /\ [][Next]_vars

(***************************************************************************)
(* SpecTap: the first call of configureTapAndFreefall after power-on, with *)
(* any valid ADXL_INTType.                                                 *)
(***************************************************************************)
InitTap ==
    /\ PowerOn
    /\ dev = [r \in Regs |-> 0]
    /\ initConfig = NULL
    /\ sample = <<0, 0, 0>>

NextTap == pc = "idle" /\ \E c \in ValidIntConfigs : configureTapAndFreefall(c)

SpecTap == InitTap /\ [][NextTap]_vars

(***************************************************************************)
(* SpecMap: calls of INT_Map with any mask, the pins 0..3, from any        *)
(* contents of the INT_MAP register.                                       *)
(***************************************************************************)
Pins == {0, 1, 2, 3}

InitMap ==
    /\ PowerOn
    /\ \E m \in Bytes : dev = [r \in Regs |-> IF r = INT_MAP THEN m ELSE 0]
    /\ initConfig = NULL
    /\ sample = <<0, 0, 0>>

NextMap ==
    \/ pc = "idle" /\ \E m \in Bytes, pin \in Pins : INT_Map(m, pin)
    \/ Return

SpecMap == InitMap /\ [][NextMap]_vars

(***************************************************************************)
(* SpecSource: calls of INT_Source, the device holding any byte in its     *)
(* INT_SOURCE register.                                                    *)
(***************************************************************************)
InitSource ==
    /\ PowerOn
    /\ \E b \in Bytes : dev = [r \in Regs |-> IF r = INT_SOURCE THEN b ELSE 0]
    /\ initConfig = NULL
    /\ sample = <<0, 0, 0>>

NextSource == INT_Source \/ Return

SpecSource == InitSource /\ [][NextSource]_vars

(***************************************************************************)
(* SpecAxis: the first read of an axis after power-on.  The device has     *)
(* measured <<v, -1 - v, v with the sign bit flipped>> for any int16_t v,  *)
(* so that every axis takes every value and the three axes differ.         *)
(***************************************************************************)
Int16 == (0 - (Word16 \div 2)) .. ((Word16 \div 2) - 1)

Samples == {<<v, (0 - 1) - v, ToInt16(v + (Word16 \div 2))>> : v \in Int16}

InitAxis ==
    /\ PowerOn
    /\ sample \in Samples
    /\ dev = [r \in Regs |->
                 IF r \in DOMAIN DataRegs(sample) THEN DataRegs(sample)[r]
                 ELSE 0]
    /\ initConfig = NULL

NextAxis == read_X \/ read_Y \/ read_Z

SpecAxis == InitAxis /\ [][NextAxis]_vars

(***************************************************************************)
(* SpecTest: calls of adxlTest, the device at the bus address answering    *)
(* with any byte in its DEVID register.                                    *)
(***************************************************************************)
InitTest ==
    /\ PowerOn
    /\ \E b \in Bytes : dev = [r \in Regs |-> IF r = DEVID THEN b ELSE 0]
    /\ initConfig = NULL
    /\ sample = <<0, 0, 0>>

NextTest == adxlTest \/ Return

SpecTest == InitTest /\ [][NextTest]_vars

(***************************************************************************)
(* Properties.                                                             *)
(***************************************************************************)
\* adxlInit has returned from a call with a configuration object
InitReturned ==
    pc = "returned" /\ call.op = "adxlInit" /\ ~IsNull(initConfig)

\* the positions of the log at which register r is written
WritesTo(r) == {i \in DOMAIN log : log[i].kind = "write" /\ log[i].reg = r}
\* the largest member of a non-empty set of positions
Last(S) == CHOOSE i \in S : \A j \in S : j <= i
\* the position in adxlInit's log of the write of the composed rate byte
RateStep == Len(resetRegistersWrites) + 1
\* the registers configureAutosleep writes
AutosleepRegs == {THRESH_ACT, THRESH_INACT, TIME_INACT, ACT_INACT_CTL}

\* C1: when a register write of adxlInit fails, no later write is issued and
\* the caller is handed an error; when the write of the rate byte fails, the
\* data_format and fifo_ctl shadows still hold their values from before the
\* call.
C1_AbortOnFirstFailure ==
    InitReturned =>
        \A i \in DOMAIN log :
            ~log[i].ok =>
                /\ Len(log) = i
                /\ ret # Void
                /\ (i = RateStep =>
                        /\ data_format = pre.data_format
                        /\ fifo_ctl = pre.fifo_ctl)

\* C2: every shadow byte equals the value of the last successful write to
\* its register, and still has its initial value 0 while there was none.
C2_ShadowIsLastSuccessfulWrite ==
    \A r \in ShadowRegs :
        ShadowOf(r) = (IF lastOk[r] = NoWrite THEN 0 ELSE lastOk[r])

\* C3: with autosleep requested, adxlInit writes each of the four autosleep
\* sub-registers before it writes the composed power-control byte to
\* POWER_CTL, and writes none of them after it.
C3_AutosleepBeforePowerCtl ==
    (InitReturned /\ initConfig.AUTOSLEEP_MODE = AUTOSLEEPMODE_ON) =>
        /\ WritesTo(POWER_CTL) # {}
        /\ LET p == Last(WritesTo(POWER_CTL))
           IN  /\ log[p].val = PowerCtlByte(initConfig)
               /\ BitAnd(log[p].val, AUTOSLEEPMODE_ON) = AUTOSLEEPMODE_ON
               /\ \A r \in AutosleepRegs :
                      /\ WritesTo(r) # {}
                      /\ \A i \in WritesTo(r) : i < p

\* C3 witness: adxlInit returned from a call with autosleep requested, all
\* writes done
C3_Witness ==
    /\ InitReturned
    /\ initConfig.AUTOSLEEP_MODE = AUTOSLEEPMODE_ON
    /\ Len(log) = 12
    /\ \A i \in DOMAIN log : log[i].ok
    /\ dev[ACT_INACT_CTL] = 255
    /\ dev[POWER_CTL] = PowerCtlByte(initConfig)

\* the registers the claim C4 lists as reset by adxlInit
C4_Regs == {BW_RATE, DATA_FORMAT, FIFO_CTL, INT_ENABLE}
\* the byte adxlInit composes for register r; it composes none for INT_ENABLE
ConfigByteOf(r) ==
    CASE r = BW_RATE -> BwRateByte(initConfig)
      [] r = POWER_CTL -> PowerCtlByte(initConfig)
      [] r = DATA_FORMAT -> DataFormatByte(initConfig)
      [] r = FIFO_CTL -> FifoCtlByte(initConfig)
      [] OTHER -> 0

\* C4: adxlInit writes zero to each of rate/power, data-format, FIFO-control
\* and interrupt-enable before any other write, and when its writes succeed
\* each of these registers holds zero or the byte of the new configuration.
C4_ResetBeforeConfigure ==
    InitReturned =>
        /\ \A r \in C4_Regs :
               \E i \in WritesTo(r) :
                   /\ log[i].val = 0
                   /\ \A j \in 1 .. i : log[j].val = 0
        /\ (\A i \in DOMAIN log : log[i].ok) =>
               \A r \in C4_Regs : dev[r] \in {0, ConfigByteOf(r)}

\* C5: the last byte adxlInit writes to BW_RATE is LP_MODE | BWRATE: bits
\* 0-3 are the rate code, bit 4 is the low-power flag, bits 5-7 are clear.
C5_RateByte ==
    InitReturned =>
        /\ WritesTo(BW_RATE) # {}
        /\ LET v == log[Last(WritesTo(BW_RATE))].val
           IN  /\ v = BitOr(initConfig.LP_MODE, initConfig.BWRATE)
               /\ v % 16 = initConfig.BWRATE
               /\ ((v \div 16) % 2 = 1) <=> (initConfig.LP_MODE = LP_LOWPOWER)
               /\ v \div 32 = 0
               /\ bw_rate = v

\* C5 witness: low-power mode at the highest rate was written: 0x1F
C5_Witness ==
    /\ InitReturned
    /\ initConfig.LP_MODE = LP_LOWPOWER
    /\ initConfig.BWRATE = 15
    /\ log[RateStep] =
           [kind |-> "write", reg |-> BW_RATE, val |-> 31, ok |-> TRUE]
    /\ dev[BW_RATE] = 31

\* bit k of the byte or word x
Bit(x, k) == (x \div (2 ^ k)) % 2
\* the registers written by the call that returned
Written == {log[i].reg : i \in {j \in DOMAIN log : log[j].kind = "write"}}

\* configureTapAndFreefall has returned
TapReturned == pc = "returned" /\ call.op = "configureTapAndFreefall"

\* C6: configureTapAndFreefall with double tap requested and single tap not
\* writes THRESH_TAP, DUR, TAP_AXES, LATENT and WINDOW; with single tap
\* requested and double tap not it writes THRESH_TAP, DUR and TAP_AXES and
\* neither LATENT nor WINDOW.
C6_TapRegisters ==
    TapReturned =>
        LET single == Bit(call.a, 6) = 1
            double == Bit(call.a, 5) = 1
        IN  /\ (double /\ ~single) =>
                   {THRESH_TAP, DUR, TAP_AXES, LATENT, WINDOW} \subseteq Written
            /\ (single /\ ~double) =>
                   /\ {THRESH_TAP, DUR, TAP_AXES} \subseteq Written
                   /\ LATENT \notin Written
                   /\ WINDOW \notin Written

\* C6 witness: only double tap was requested and the five tap registers
\* have taken their values
C6_Witness ==
    /\ TapReturned
    /\ call.a = DOUBLE_TAP_ON
    /\ Len(log) = 5
    /\ dev[THRESH_TAP] = 48 /\ dev[DUR] = 32 /\ dev[TAP_AXES] = 7
    /\ dev[LATENT] = 5 /\ dev[WINDOW] = 80

\* INT_Map has returned; call.a is the mask, call.b the pin
MapReturned == pc = "returned" /\ call.op = "INT_Map"
\* INT_Map has returned from a call with pin 1 or 2 whose read and write both
\* succeeded
MapDone ==
    /\ MapReturned
    /\ call.b \in {1, 2}
    /\ \A i \in DOMAIN log : log[i].ok

\* C7: after INT_Map(mask, 1) the INT_MAP register has every bit of the mask
\* clear, after INT_Map(mask, 2) every bit of the mask set, and every other
\* bit as it was read; that byte is the byte written.
C7_MapBits ==
    MapDone =>
        /\ Len(log) = 2
        /\ log[1].kind = "read" /\ log[1].reg = INT_MAP
        /\ log[2].kind = "write" /\ log[2].reg = INT_MAP
        /\ log[2].val = dev[INT_MAP]
        /\ \A k \in 0 .. 7 :
               Bit(dev[INT_MAP], k) =
                   IF Bit(call.a, k) = 1
                   THEN (IF call.b = 1 THEN 0 ELSE 1)
                   ELSE Bit(log[1].val, k)

\* C7 witness: INT_Map(0x84, 1) on a register that held 0xFF left 0x7B
C7_Witness ==
    /\ MapDone
    /\ call.a = 132 /\ call.b = 1
    /\ log[1].val = 255
    /\ dev[INT_MAP] = 123

\* C8: INT_Map with a pin other than 1 and 2 hands the caller a
\* ConfigurationError and writes no register.
C8_InvalidPinIsError ==
    (MapReturned /\ call.b \notin {1, 2}) =>
        /\ ret = "ConfigurationError"
        /\ Written = {}

\* INT_Source has returned from a call whose read succeeded
SourceDone ==
    pc = "returned" /\ call.op = "INT_Source" /\ log[1].ok
\* the line that reports the motion event of bit k of the interrupt bytes
EventLine(k) ==
    CASE k = 7 -> "Interrupt: Data Ready"
      [] k = 6 -> "Interrupt: Single Tap Detected"
      [] k = 5 -> "Interrupt: Double Tap Detected"
      [] k = 4 -> "Interrupt: Activity Detected"
      [] k = 3 -> "Interrupt: Inactivity Detected"
      [] k = 2 -> "Interrupt: Free-Fall Detected"
      [] k = 1 -> "Interrupt: FIFO Watermark Reached"
      [] k = 0 -> "Interrupt: FIFO Overrun"
\* the events the call that returned has reported
Reported == {printed[i] : i \in DOMAIN printed}

\* C9: INT_Source reports exactly the events whose bit is set in the byte
\* read from INT_SOURCE, each once: none for 0x00, data-ready and free-fall
\* for 0x84.
C9_SourceDecode ==
    SourceDone =>
        LET b == dev[INT_SOURCE]
        IN  /\ log[1].val = b /\ int_source = b
            /\ Reported = {EventLine(k) : k \in {j \in 0 .. 7 : Bit(b, j) = 1}}
            /\ Len(printed) = Cardinality(Reported)
            /\ ret = Void
            /\ (b = 0 => printed = << >>)
            /\ (b = 132 => Reported = {"Interrupt: Data Ready",
                                       "Interrupt: Free-Fall Detected"})

\* C9 witness: the byte 0x84 was read and decoded
C9_Witness ==
    /\ SourceDone
    /\ dev[INT_SOURCE] = 132
    /\ printed = <<"Interrupt: Data Ready", "Interrupt: Free-Fall Detected">>

\* a read of an axis has returned from a call whose bus read succeeded
AxisDone == pc = "returned" /\ call.op \in {"read_X", "read_Y", "read_Z"}
            /\ log[1].ok

\* C10: read_X, read_Y and read_Z return the measured x, y and z: one read
\* of six bytes from DATAX0, the value of an axis being its two bytes, low
\* byte first, as a 16-bit two's complement number.
C10_AxisRoundTrip ==
    AxisDone =>
        /\ Len(log) = 1 /\ log[1].kind = "read" /\ log[1].reg = DATAX0
        /\ axis_data = [i \in 0 .. 5 |-> dev[DATAX0 + i]]
        /\ ret \in Int16
        /\ (call.op = "read_X" => ret = sample[1])
        /\ (call.op = "read_Y" => ret = sample[2])
        /\ (call.op = "read_Z" => ret = sample[3])

\* C10 witness: read_X returned the most negative value, from 0x00, 0x80
C10_Witness ==
    /\ AxisDone
    /\ call.op = "read_X"
    /\ sample[1] = 0 - 32768
    /\ axis_data[0] = 0 /\ axis_data[1] = 128
    /\ ret = 0 - 32768

\* adxlTest has returned from a call whose read of DEVID succeeded
TestDone == pc = "returned" /\ call.op = "adxlTest" /\ log[1].ok

\* C11: adxlTest hands the caller Ok(true) when the byte read from DEVID is
\* 0xE5 and Ok(false) when it is any other byte.
C11_IdentityReported ==
    TestDone =>
        ret = (IF dev[DEVID] = DEVID_ADXL345 THEN "Ok(true)" ELSE "Ok(false)")

\* C12: adxlInit(NULL) hands the caller a ConfigurationError, issues no bus
\* transaction and leaves the shadow bytes as they were.
C12_NullConfigIsError ==
    (pc = "returned" /\ call.op = "adxlInit" /\ IsNull(initConfig)) =>
        /\ ret = "ConfigurationError"
        /\ log = << >>
        /\ CurShadow = pre

====
